---- MODULE Spec2Model ----
(***************************************************************************)
(* A model of the commit-message assistant: the TF-IDF similarity index    *)
(* (backend/rag_system.py, class GitHubCommitsRAG), the generator that     *)
(* sequences diff acquisition, analysis, retrieval and the LLM call        *)
(* (backend/commit_generator.py, commit_generator.py), and the HTTP        *)
(* handler /api/commit/generate (backend/api_server.py, api_server.py).    *)
(*                                                                         *)
(* Texts are modelled after tokenisation: the search text of a commit is   *)
(* the set of its terms.  The numerics library's weights are taken as 0/1  *)
(* (a term is in a document or it is not), and a similarity is the squared *)
(* cosine scaled to an integer, which orders documents exactly as the      *)
(* cosine of these vectors does.                                           *)
(***************************************************************************)
EXTENDS Integers, Sequences, FiniteSets, TLC

(***************************************************************************)
(* Bounds of the model.                                                    *)
(***************************************************************************)
\* the longest commit dataset (rows of the CSV) that is explored
MaxRecords == 3

\* retrieve is called with top_k in -MaxK .. MaxK
MaxK == 3

(***************************************************************************)
(* Values shared by all components.                                        *)
(***************************************************************************)
\* Python's None, for the three optional fields of GitHubCommitsRAG
None == [kind |-> "None"]

\* A text (a Python str) is the sequence of its characters.
\* the terms of the modelled texts, in the alphabetical order in which the
\* vectorizer numbers its vocabulary; "the" is on the English stop-word list
TermOrder == <<<<"a", "d", "d">>, <<"b", "u", "g">>, <<"c", "r", "a", "s", "h">>, <<"d", "a", "r", "k">>, <<"f", "i", "x">>, <<"l", "o", "g", "i", "n">>, <<"m", "o", "d", "e">>, <<"t", "h", "e">>>>

Terms == {TermOrder[i] : i \in 1..Len(TermOrder)}

StopWords == {<<"t", "h", "e">>}

TermPos(t) == CHOOSE i \in 1..Len(TermOrder) : TermOrder[i] = t

\* combined_text of one CSV row, tokenised (message + author_name + repo_name):
\* "fix login", "add dark mode the", "the"
TextFixLogin == {<<"f", "i", "x">>, <<"l", "o", "g", "i", "n">>}

TextAddDark == {<<"a", "d", "d">>, <<"d", "a", "r", "k">>, <<"m", "o", "d", "e">>, <<"t", "h", "e">>}

TextThe == {<<"t", "h", "e">>}

Texts == {TextFixLogin, TextAddDark, TextThe}

\* the datasets a CSV file can hold: every sequence of at most MaxRecords rows
Corpora == UNION {[1..n -> Texts] : n \in 0..MaxRecords}

\* the CSV contents the lifecycle of one instance is explored with: an empty
\* dataset, a one-row and a two-row dataset
Datasets == {<<>>, <<TextAddDark>>, <<TextFixLogin, TextAddDark>>}

\* the query texts handed to retrieve, tokenised ("fix login", "fix dark",
\* "zzz"); "zzz" is in no vocabulary
Queries == {{<<"f", "i", "x">>, <<"l", "o", "g", "i", "n">>}, {<<"f", "i", "x">>, <<"d", "a", "r", "k">>}, {<<"z", "z", "z">>}}

TopKs == (0 - MaxK)..MaxK

(***************************************************************************)
(* Python's str operations, on texts as sequences of characters.           *)
(***************************************************************************)
\* s.startswith(prefix)
StartsWith(s, prefix) == Len(prefix) <= Len(s) /\ SubSeq(s, 1, Len(prefix)) = prefix

\* sub in s
Contains(s, sub) == \E i \in 1..(Len(s) - Len(sub) + 1) : SubSeq(s, i, i + Len(sub) - 1) = sub

\* s.split(c) for a one-character separator: "" splits into one empty text
RECURSIVE Split(_, _)
Split(s, c) == IF \A i \in 1..Len(s) : s[i] # c THEN <<s>>
               ELSE LET i == CHOOSE j \in 1..Len(s) : s[j] = c /\ \A h \in 1..(j - 1) : s[h] # c
                    IN  <<SubSeq(s, 1, i - 1)>> \o Split(SubSeq(s, i + 1, Len(s)), c)

\* s.replace(old, ""): every occurrence of old removed, left to right
RECURSIVE Remove(_, _)
Remove(s, old) == IF Len(s) < Len(old) THEN s
                  ELSE IF StartsWith(s, old) THEN Remove(SubSeq(s, Len(old) + 1, Len(s)), old)
                  ELSE <<s[1]>> \o Remove(Tail(s), old)

Whitespace == {" ", "\t", "\n", "\r"}

\* s.strip()
Strip(s) == LET keep == {i \in 1..Len(s) : s[i] \notin Whitespace}
            IN  IF keep = {} THEN <<>>
                ELSE SubSeq(s, CHOOSE i \in keep : \A j \in keep : i <= j, CHOOSE i \in keep : \A j \in keep : j <= i)

\* sep.join(texts)
RECURSIVE Join(_, _)
Join(texts, sep) == IF Len(texts) = 0 THEN <<>>
                    ELSE IF Len(texts) = 1 THEN texts[1]
                    ELSE texts[1] \o sep \o Join(Tail(texts), sep)

\* seq[:n] for n >= 0
Take(seq, n) == SubSeq(seq, 1, IF n < Len(seq) THEN n ELSE Len(seq))

UpperCase == <<"A", "B", "C", "D", "E", "F", "G", "H", "I", "J", "K", "L", "M", "N", "O", "P", "Q", "R", "S", "T", "U", "V", "W", "X", "Y", "Z">>

LowerCase == <<"a", "b", "c", "d", "e", "f", "g", "h", "i", "j", "k", "l", "m", "n", "o", "p", "q", "r", "s", "t", "u", "v", "w", "x", "y", "z">>

Digits == {"0", "1", "2", "3", "4", "5", "6", "7", "8", "9"}

\* c.lower()
Lower(c) == IF \E i \in 1..Len(UpperCase) : UpperCase[i] = c THEN LowerCase[CHOOSE i \in 1..Len(UpperCase) : UpperCase[i] = c] ELSE c

\* the characters \w matches
WordChars == {LowerCase[i] : i \in 1..Len(LowerCase)} \cup {UpperCase[i] : i \in 1..Len(UpperCase)} \cup Digits \cup {"_"}

\* the tokens of the vectorizer's analyzer: the text lowercased, then every
\* maximal run of two or more word characters (token_pattern \b\w\w+\b)
Tokenize(s) == LET IsWord(i) == i \in 1..Len(s) /\ s[i] \in WordChars
                   Starts == {i \in 1..Len(s) : IsWord(i) /\ ~IsWord(i - 1)}
                   EndOf(i) == CHOOSE j \in i..Len(s) : (\A h \in i..j : IsWord(h)) /\ ~IsWord(j + 1)
               IN  {[h \in 1..(EndOf(i) - i + 1) |-> Lower(s[i + h - 1])] : i \in {j \in Starts : EndOf(j) > j}}


(***************************************************************************)
(* The vectorizer and the similarity, as retrieve and train use them.      *)
(***************************************************************************)
\* the analyzer of TfidfVectorizer(stop_words="english"): stop words dropped
Analyzer(text) == text \ StopWords

\* the vocabulary fit_transform learns: every analysed term of the documents
FitVocabulary(docs) == UNION {Analyzer(docs[i]) : i \in 1..Len(docs)}

\* the column of term t in a fitted vocabulary (terms are numbered in
\* alphabetical order)
Column(vocabulary, t) == Cardinality({u \in vocabulary : TermPos(u) <= TermPos(t)})

\* vectorizer.transform of one text: the columns of its in-vocabulary terms;
\* a term outside the vocabulary contributes nothing
TransformText(vocabulary, text) == {Column(vocabulary, t) : t \in Analyzer(text) \cap vocabulary}

\* the document matrix of fit_transform: one row per document, in order
TransformDocs(vocabulary, docs) == [kind |-> "Matrix", ncols |-> Cardinality(vocabulary), rows |-> [i \in 1..Len(docs) |-> TransformText(vocabulary, docs[i])]]

\* similarities are kept as integers: SimScale times the squared cosine
SimScale == 3600

\* cosine_similarity of a query vector and one row; a zero vector has
\* similarity 0 to everything
CosineSimilarity(qvec, row) == IF qvec \cap row = {} THEN 0 ELSE (SimScale * Cardinality(qvec \cap row) * Cardinality(qvec \cap row)) \div (Cardinality(qvec) * Cardinality(row))

\* the orders in which a sort may leave equal keys: np.argsort's default
\* kind is not a stable sort, so each build ranks ties in an order of its own
TieOrders == {p \in [1..MaxRecords -> 1..MaxRecords] : \A i, j \in 1..MaxRecords : p[i] = p[j] => i = j}

\* np.argsort(similarities): the row numbers by ascending similarity, rows
\* of equal similarity in the order the sort leaves them
Argsort(sims, ties) == LET n == Len(sims)
                           Before(a, b) == sims[a] < sims[b] \/ (sims[a] = sims[b] /\ ties[a] < ties[b])
                           Place(a) == 1 + Cardinality({b \in 1..n : Before(b, a)})
                       IN  [p \in 1..n |-> CHOOSE a \in 1..n : Place(a) = p]

\* Python's seq[-k:] for a sequence of length n
LastSlice(seq, k) == LET n == Len(seq)
                         start == IF k > 0 THEN (IF n - k < 0 THEN 0 ELSE n - k) ELSE (IF 0 - k > n THEN n ELSE 0 - k)
                     IN  [i \in 1..(n - start) |-> seq[start + i]]

\* Python's seq[::-1]
Reversed(seq) == [i \in 1..Len(seq) |-> seq[Len(seq) + 1 - i]]

\* top_indices with the final [::-1] forgotten
TopIndicesAscending(sims, top_k, ties) == LastSlice(Argsort(sims, ties), top_k)

\* top_indices of retrieve
TopIndices(sims, top_k, ties) == Reversed(LastSlice(Argsort(sims, ties), top_k))

(***************************************************************************)
(* GitHubCommitsRAG: one instance, its model file and its callers.         *)
(***************************************************************************)
VARIABLES df, vectorizer, embeddings, trained, modelFile, argsortTies, ragCall

ragVars == <<df, vectorizer, embeddings, trained, modelFile, argsortTies, ragCall>>

\* the repository the generator works in (what git prints), the module-level
\* generator of the API server, and the last run of generate_commit_message
\* and of the /api/commit/generate handler, and the last call of
\* analyze_changes made on its own
VARIABLES gitStatus, stagedDiff, unstagedDiff, generator, genCall, apiCall, analyzeCall

genVars == <<gitStatus, stagedDiff, unstagedDiff, generator, genCall, apiCall, analyzeCall>>

\* threads at work: the requests inside get_generator, a retrieve in
\* progress and a train or load_model in progress on the same instance
VARIABLES requests, retrieveRun, mutatorRun

threadVars == <<requests, retrieveRun, mutatorRun>>

vars == <<ragVars, genVars, threadVars>>

\* self.df after pd.read_csv: the rows with their combined_text
Frame(corpus) == [kind |-> "Frame", records |-> corpus]

\* TfidfVectorizer(...) as constructed in train, before fit_transform
UnfittedVectorizer == [kind |-> "Vectorizer", fitted |-> FALSE, vocabulary |-> {}]

FittedVectorizer(vocabulary) == [kind |-> "Vectorizer", fitted |-> TRUE, vocabulary |-> vocabulary]

\* what pickle.dump writes: the dict model_data
Bundle(data) == [kind |-> "Bundle", data |-> data]

ModelData(vec, emb, frame) == [key \in {"vectorizer", "embeddings", "df"} |-> CASE key = "vectorizer" -> vec [] key = "embeddings" -> emb [] OTHER -> frame]

\* a train that adds the corpus's terms to the vocabulary it had
TrainedOnAdditive(corpus) == LET vocabulary == FitVocabulary(corpus) \cup (IF vectorizer # None THEN vectorizer.vocabulary ELSE {})
                             IN  ModelData(FittedVectorizer(vocabulary), TransformDocs(vocabulary, corpus), Frame(corpus))

\* the state train leaves when it succeeds on a corpus
TrainedOn(corpus) == ModelData(FittedVectorizer(FitVocabulary(corpus)), TransformDocs(FitVocabulary(corpus), corpus), Frame(corpus))

\* a corpus train can index: fit_transform raises on an empty vocabulary
Trainable(corpus) == FitVocabulary(corpus) # {}

\* model files that did not come from this instance: no file, a file that
\* does not unpickle, and bundles of another instance trained on a one-row
\* dataset, whole or with some of the three keys missing
ForeignCorpora == {<<TextFixLogin>>}

KeySets == SUBSET {"vectorizer", "embeddings", "df"}

ForeignFiles == {[kind |-> "Missing"], [kind |-> "Corrupt"]} \cup {Bundle([key \in keys |-> TrainedOn(c)[key]]) : c \in ForeignCorpora, keys \in KeySets}

\* the result of a call that raised, and of one that returned
Raised(op, error) == [op |-> op, raised |-> error, query |-> {}, top_k |-> 0, results |-> <<>>]

Returned(op) == [op |-> op, raised |-> "None", query |-> {}, top_k |-> 0, results |-> <<>>]

\* texts
NoText == <<>>

\* an optional argument: not given, or given with a value
NotGiven == <<>>

Given(value) == <<value>>

\* no generator has run and the working tree is clean
GenIdle == /\ gitStatus = "ok"
           /\ stagedDiff = NoText
           /\ unstagedDiff = NoText
           /\ generator = None
           /\ genCall = None
           /\ apiCall = None
           /\ analyzeCall = None
           /\ requests = <<>>
           /\ retrieveRun = None
           /\ mutatorRun = None

\* tie orders that differ on the rows of the lifecycle's datasets (these
\* have at most two rows, so the order of later rows is never consulted)
LifecycleTieOrders == {p \in TieOrders : \A i \in 3..MaxRecords : p[i] = i}

\* __init__: the three fields are None and load_data has read the CSV
RagInit == /\ df \in {Frame(c) : c \in Datasets}
           /\ vectorizer = None
           /\ embeddings = None
           /\ trained = FALSE
           /\ modelFile = [kind |-> "Missing"]
           /\ argsortTies \in LifecycleTieOrders
           /\ ragCall = Returned("init")
           /\ GenIdle

\* load_data: self.df is replaced by what the CSV holds now; the index
\* fields are not touched
LoadData(csv) == /\ df' = Frame(csv)
                 /\ ragCall' = Returned("load_data")
                 /\ UNCHANGED <<vectorizer, embeddings, trained, modelFile, argsortTies>>
                 /\ UNCHANGED <<genVars, threadVars>>

\* train: without a dataframe it raises at once; otherwise a new vectorizer
\* is stored first, then fit_transform either raises (empty vocabulary) or
\* fits it and stores the matrix
Train == /\ IF df = None
               THEN /\ ragCall' = Raised("train", "ValueError")
                    /\ UNCHANGED <<vectorizer, embeddings, trained>>
               ELSE IF Trainable(df.records)
               THEN /\ vectorizer' = TrainedOn(df.records)["vectorizer"]
                    /\ embeddings' = TrainedOn(df.records)["embeddings"]
                    /\ trained' = TRUE
                    /\ ragCall' = Returned("train")
               ELSE /\ vectorizer' = UnfittedVectorizer
                    /\ ragCall' = Raised("train", "ValueError")
                    /\ UNCHANGED <<embeddings, trained>>
         /\ UNCHANGED <<df, modelFile, argsortTies>>
         /\ UNCHANGED <<genVars, threadVars>>

\* save_model: the three fields, whatever they hold, go to the file
SaveModel == /\ modelFile' = Bundle(ModelData(vectorizer, embeddings, df))
             /\ ragCall' = Returned("save_model")
             /\ UNCHANGED <<df, vectorizer, embeddings, trained, argsortTies>>
             /\ UNCHANGED <<genVars, threadVars>>

\* load_model with the assignment of df forgotten
LoadedFieldsWithoutDf(data) == IF "vectorizer" \notin DOMAIN data THEN {}
                               ELSE IF "embeddings" \notin DOMAIN data THEN {"vectorizer"}
                               ELSE {"vectorizer", "embeddings"}

\* the fields load_model has assigned when it stops: it assigns vectorizer,
\* embeddings, df in this order and a missing key raises KeyError
LoadedFields(data) == IF "vectorizer" \notin DOMAIN data THEN {}
                      ELSE IF "embeddings" \notin DOMAIN data THEN {"vectorizer"}
                      ELSE IF "df" \notin DOMAIN data THEN {"vectorizer", "embeddings"}
                      ELSE {"vectorizer", "embeddings", "df"}

\* load_model clearing the instance when there is no file
LoadModelResetting == /\ CASE modelFile.kind = "Missing" ->
                                /\ ragCall' = Raised("load_model", "FileNotFoundError")
                                /\ vectorizer' = None /\ embeddings' = None
                                /\ UNCHANGED <<df, trained>>
                           [] modelFile.kind = "Corrupt" ->
                                /\ ragCall' = Raised("load_model", "UnpicklingError")
                                /\ UNCHANGED <<df, vectorizer, embeddings, trained>>
                           [] OTHER ->
                                LET data == modelFile.data
                                    done == LoadedFields(data)
                                IN  /\ vectorizer' = IF "vectorizer" \in done THEN data["vectorizer"] ELSE vectorizer
                                    /\ embeddings' = IF "embeddings" \in done THEN data["embeddings"] ELSE embeddings
                                    /\ df' = IF "df" \in done THEN data["df"] ELSE df
                                    /\ trained' = (trained \/ "df" \in done)
                                    /\ ragCall' = IF "df" \in done THEN Returned("load_model") ELSE Raised("load_model", "KeyError")
                      /\ UNCHANGED <<modelFile, argsortTies>>
                      /\ UNCHANGED <<genVars, threadVars>>

\* load_model
LoadModel == /\ CASE modelFile.kind = "Missing" ->
                       /\ ragCall' = Raised("load_model", "FileNotFoundError")
                       /\ UNCHANGED <<df, vectorizer, embeddings, trained>>
                  [] modelFile.kind = "Corrupt" ->
                       /\ ragCall' = Raised("load_model", "UnpicklingError")
                       /\ UNCHANGED <<df, vectorizer, embeddings, trained>>
                  [] OTHER ->
                       LET data == modelFile.data
                           done == LoadedFields(data)
                       IN  /\ vectorizer' = IF "vectorizer" \in done THEN data["vectorizer"] ELSE vectorizer
                           /\ embeddings' = IF "embeddings" \in done THEN data["embeddings"] ELSE embeddings
                           /\ df' = IF "df" \in done THEN data["df"] ELSE df
                           /\ trained' = (trained \/ "df" \in done)
                           /\ ragCall' = IF "df" \in done THEN Returned("load_model") ELSE Raised("load_model", "KeyError")
             /\ UNCHANGED <<modelFile, argsortTies>>
             /\ UNCHANGED <<genVars, threadVars>>

\* somebody else writes, replaces or removes the model file
WriteModelFile(file) == /\ modelFile' = file
                        /\ UNCHANGED <<df, vectorizer, embeddings, trained, argsortTies, ragCall>>
                        /\ UNCHANGED <<genVars, threadVars>>

\* similarities of retrieve: one per row of the matrix
Similarities(vec, emb, query) == [i \in 1..Len(emb.rows) |-> CosineSimilarity(TransformText(vec.vocabulary, query), emb.rows[i])]

\* one entry of the list retrieve returns; idx is the loop variable, a
\* position of the dataframe, and record stands for the fields read there
ResultEntry(idx, sims, frame) == [idx |-> idx, similarity |-> sims[idx], record |-> frame.records[idx]]

\* retrieve, as a function of the instance fields: the error it raises
\* ("None" when it returns) and the list it returns
RetrieveOutcome(vec, emb, frame, query, top_k, ties) == IF vec = None \/ emb = None THEN [raised |-> "NotTrained", results |-> <<>>]
    ELSE IF ~vec.fitted THEN [raised |-> "NotFittedError", results |-> <<>>]
    ELSE IF Cardinality(vec.vocabulary) # emb.ncols THEN [raised |-> "DimensionError", results |-> <<>>]
    ELSE LET sims == Similarities(vec, emb, query)
             top == TopIndices(sims, top_k, ties)
         IN  IF \E j \in 1..Len(top) : top[j] > Len(frame.records) THEN [raised |-> "IndexError", results |-> <<>>]
             ELSE [raised |-> "None", results |-> [j \in 1..Len(top) |-> ResultEntry(top[j], sims, frame)]]

\* retrieve fitting the vectorizer again, on the query
RetrieveRefitting(query, top_k) == /\ ragCall' = [op |-> "retrieve", query |-> query, top_k |-> top_k] @@ RetrieveOutcome(vectorizer, embeddings, df, query, top_k, argsortTies)
                                   /\ vectorizer' = IF vectorizer = None THEN vectorizer ELSE FittedVectorizer(vectorizer.vocabulary \cup Analyzer(query))
                                   /\ UNCHANGED <<df, embeddings, trained, modelFile, argsortTies>>
                                   /\ UNCHANGED <<genVars, threadVars>>

\* retrieve(query, top_k) on the instance
Retrieve(query, top_k) == /\ ragCall' = [op |-> "retrieve", query |-> query, top_k |-> top_k] @@ RetrieveOutcome(vectorizer, embeddings, df, query, top_k, argsortTies)
                          /\ UNCHANGED <<df, vectorizer, embeddings, trained, modelFile, argsortTies>>
                          /\ UNCHANGED <<genVars, threadVars>>

\* search(query, top_k): retrieve, its results printed and returned
Search(query, top_k) == /\ ragCall' = [op |-> "search", query |-> query, top_k |-> top_k] @@ RetrieveOutcome(vectorizer, embeddings, df, query, top_k, argsortTies)
                        /\ UNCHANGED <<df, vectorizer, embeddings, trained, modelFile, argsortTies>>
                        /\ UNCHANGED <<genVars, threadVars>>

\* the default of retrieve's and search's top_k parameter
DefaultTopK == 5

\* the life of one instance: its methods in any order, callers leaving top_k
\* at its default, and the model file changing under it
RagNext == \/ \E csv \in Datasets : LoadData(csv)
           \/ Train
           \/ SaveModel
           \/ LoadModel
           \/ \E file \in ForeignFiles : WriteModelFile(file)
           \/ \E query \in Queries : Retrieve(query, DefaultTopK)
           \/ \E query \in Queries : Search(query, DefaultTopK)

SpecRag == RagInit /\ [][RagNext]_vars

\* the methods of one instance alone, nobody else touching the model file
RagCallsNext == \/ \E csv \in Datasets : LoadData(csv)
                \/ Train
                \/ SaveModel
                \/ LoadModel
                \/ \E query \in Queries : Retrieve(query, DefaultTopK)
                \/ \E query \in Queries : Search(query, DefaultTopK)

SpecRagCalls == RagInit /\ [][RagCallsNext]_vars

\* an instance that was constructed on a dataset and trained on it
RetrieveInit == /\ \E c \in {d \in Corpora : Trainable(d)} :
                      /\ df = TrainedOn(c)["df"]
                      /\ vectorizer = TrainedOn(c)["vectorizer"]
                      /\ embeddings = TrainedOn(c)["embeddings"]
                /\ trained = TRUE
                /\ modelFile = [kind |-> "Missing"]
                /\ argsortTies \in TieOrders
                /\ ragCall = Returned("train")
                /\ GenIdle

\* queries against a trained index, with every top_k
RetrieveNext == \E query \in Queries, top_k \in TopKs : Retrieve(query, top_k)

SpecRetrieve == RetrieveInit /\ [][RetrieveNext]_vars

\* the messages 'fix login bug', 'add dark mode' and 'fix login crash'
TextFixLoginBug == {<<"f", "i", "x">>, <<"l", "o", "g", "i", "n">>, <<"b", "u", "g">>}

TextAddDarkMode == {<<"a", "d", "d">>, <<"d", "a", "r", "k">>, <<"m", "o", "d", "e">>}

TextFixLoginCrash == {<<"f", "i", "x">>, <<"l", "o", "g", "i", "n">>, <<"c", "r", "a", "s", "h">>}

ScenarioCorpus == <<TextFixLoginBug, TextAddDarkMode, TextFixLoginCrash>>

\* an instance constructed on the three records and trained
ScenarioInit == /\ df = TrainedOn(ScenarioCorpus)["df"]
                /\ vectorizer = TrainedOn(ScenarioCorpus)["vectorizer"]
                /\ embeddings = TrainedOn(ScenarioCorpus)["embeddings"]
                /\ trained = TRUE
                /\ modelFile = [kind |-> "Missing"]
                /\ argsortTies \in TieOrders
                /\ ragCall = Returned("train")
                /\ GenIdle

SpecScenario == ScenarioInit /\ [][RetrieveNext]_vars

\* an instance constructed on one of the lifecycle's datasets and trained
QueryInit == /\ \E c \in {d \in Datasets : Trainable(d)} :
                   /\ df = TrainedOn(c)["df"]
                   /\ vectorizer = TrainedOn(c)["vectorizer"]
                   /\ embeddings = TrainedOn(c)["embeddings"]
             /\ trained = TRUE
             /\ modelFile = [kind |-> "Missing"]
             /\ argsortTies \in LifecycleTieOrders
             /\ ragCall = Returned("train")
             /\ GenIdle

\* the read-only use of a trained index: queries with every top_k, and saves
QueryNext == \/ \E query \in Queries, top_k \in TopKs : Retrieve(query, top_k)
             \/ \E query \in Queries, top_k \in TopKs : Search(query, top_k)
             \/ SaveModel

SpecQuery == QueryInit /\ [][QueryNext]_vars

(***************************************************************************)
(* CommitMessageGenerator: git helpers, diff analysis, the run.            *)
(***************************************************************************)
\* two diffs git can print:
\*   "--- a/fix.py\n+++ b/fix.py\n+def login():\n-    pass\n"
\*   "+++ b/dark.py\n+mode = 1\n"
DiffFix == <<"-", "-", "-", " ", "a", "/", "f", "i", "x", ".", "p", "y", "\n", "+", "+", "+", " ", "b", "/", "f", "i", "x", ".", "p", "y", "\n", "+", "d", "e", "f", " ", "l", "o", "g", "i", "n", "(", ")", ":", "\n", "-", " ", " ", " ", " ", "p", "a", "s", "s", "\n">>

DiffDark == <<"+", "+", "+", " ", "b", "/", "d", "a", "r", "k", ".", "p", "y", "\n", "+", "m", "o", "d", "e", " ", "=", " ", "1", "\n">>

\* the texts get_git_diff returns when git fails and when git is not installed
ErrorGettingDiff == <<"E", "r", "r", "o", "r", " ", "g", "e", "t", "t", "i", "n", "g", " ", "g", "i", "t", " ", "d", "i", "f", "f", ":", " ", "e", "x", "i", "t", " ", "s", "t", "a", "t", "u", "s", " ", "1", "2", "8">>

GitNotFound == <<"G", "i", "t", " ", "n", "o", "t", " ", "f", "o", "u", "n", "d", ".", " ", "M", "a", "k", "e", " ", "s", "u", "r", "e", " ", "y", "o", "u", "'", "r", "e", " ", "i", "n", " ", "a", " ", "g", "i", "t", " ", "r", "e", "p", "o", "s", "i", "t", "o", "r", "y", ".">>

\* the messages of the error results
NoStagedChanges == <<"N", "o", " ", "s", "t", "a", "g", "e", "d", " ", "c", "h", "a", "n", "g", "e", "s", " ", "f", "o", "u", "n", "d">>

NoChangesFound == <<"N", "o", " ", "c", "h", "a", "n", "g", "e", "s", " ", "f", "o", "u", "n", "d">>

GroqErrorPrefix == <<"E", "r", "r", "o", "r", " ", "c", "a", "l", "l", "i", "n", "g", " ", "G", "r", "o", "q", " ", "A", "P", "I", ":", " ">>

\* what the LLM call can do: answer (content " fix: login\n"), raise
\* (transport or auth error, text "timeout"), or answer without content
\* (content is None, so .strip() raises AttributeError)
LlmOutcomes == {"content", "raises", "no_content"}

LlmContent == <<" ", "f", "i", "x", ":", " ", "l", "o", "g", "i", "n", "\n">>

LlmErrorText(llm) == IF llm = "raises" THEN <<"t", "i", "m", "e", "o", "u", "t">> ELSE <<"n", "o", " ", "a", "t", "t", "r", "i", "b", "u", "t", "e", " ", "s", "t", "r", "i", "p">>

\* get_git_diff with the two commands swapped
GetGitDiffSwapped(staged) == IF gitStatus = "ok" THEN (IF staged THEN unstagedDiff ELSE stagedDiff)
                             ELSE IF gitStatus = "failed" THEN ErrorGettingDiff
                             ELSE GitNotFound

\* get_git_diff(staged): git's output, or an error text in its place
GetGitDiff(staged) == IF gitStatus = "ok" THEN (IF staged THEN stagedDiff ELSE unstagedDiff)
                      ELSE IF gitStatus = "failed" THEN ErrorGettingDiff
                      ELSE GitNotFound

EmptyAnalysis == [files_changed |-> <<>>, additions |-> 0, deletions |-> 0, key_changes |-> <<>>]

\* the loop body counting the "---" header among the removed lines
AnalyzeLineCountingHeaders(analysis, line) == IF StartsWith(line, <<"+", "+", "+">>)
        THEN LET file_name == Strip(Remove(line, <<"+", "+", "+", " ", "b", "/">>))
             IN  IF file_name # <<>> /\ file_name # <<"/", "d", "e", "v", "/", "n", "u", "l", "l">> THEN [analysis EXCEPT !.files_changed = Append(@, file_name)] ELSE analysis
        ELSE IF StartsWith(line, <<"+">>)
        THEN IF Contains(line, <<"d", "e", "f", " ">>) \/ Contains(line, <<"c", "l", "a", "s", "s", " ">>) \/ Contains(line, <<"f", "u", "n", "c", "t", "i", "o", "n", " ">>)
             THEN [analysis EXCEPT !.additions = @ + 1, !.key_changes = Append(@, Strip(line))]
             ELSE [analysis EXCEPT !.additions = @ + 1]
        ELSE IF StartsWith(line, <<"-">>)
        THEN [analysis EXCEPT !.deletions = @ + 1]
        ELSE analysis

\* the loop body keeping key lines as they are, not trimmed
AnalyzeLineKeepingRawLine(analysis, line) == IF StartsWith(line, <<"+", "+", "+">>)
        THEN LET file_name == Strip(Remove(line, <<"+", "+", "+", " ", "b", "/">>))
             IN  IF file_name # <<>> /\ file_name # <<"/", "d", "e", "v", "/", "n", "u", "l", "l">> THEN [analysis EXCEPT !.files_changed = Append(@, file_name)] ELSE analysis
        ELSE IF StartsWith(line, <<"+">>)
        THEN IF Contains(line, <<"d", "e", "f", " ">>) \/ Contains(line, <<"c", "l", "a", "s", "s", " ">>) \/ Contains(line, <<"f", "u", "n", "c", "t", "i", "o", "n", " ">>)
             THEN [analysis EXCEPT !.additions = @ + 1, !.key_changes = Append(@, line)]
             ELSE [analysis EXCEPT !.additions = @ + 1]
        ELSE IF StartsWith(line, <<"-">>) /\ ~StartsWith(line, <<"-", "-", "-">>)
        THEN [analysis EXCEPT !.deletions = @ + 1]
        ELSE analysis

\* one turn of the loop of analyze_changes
AnalyzeLine(analysis, line) == IF StartsWith(line, <<"+", "+", "+">>)
        THEN LET file_name == Strip(Remove(line, <<"+", "+", "+", " ", "b", "/">>))
             IN  IF file_name # <<>> /\ file_name # <<"/", "d", "e", "v", "/", "n", "u", "l", "l">> THEN [analysis EXCEPT !.files_changed = Append(@, file_name)] ELSE analysis
        ELSE IF StartsWith(line, <<"+">>)
        THEN IF Contains(line, <<"d", "e", "f", " ">>) \/ Contains(line, <<"c", "l", "a", "s", "s", " ">>) \/ Contains(line, <<"f", "u", "n", "c", "t", "i", "o", "n", " ">>)
             THEN [analysis EXCEPT !.additions = @ + 1, !.key_changes = Append(@, Strip(line))]
             ELSE [analysis EXCEPT !.additions = @ + 1]
        ELSE IF StartsWith(line, <<"-">>) /\ ~StartsWith(line, <<"-", "-", "-">>)
        THEN [analysis EXCEPT !.deletions = @ + 1]
        ELSE analysis

RECURSIVE AnalyzeLines(_, _)
AnalyzeLines(analysis, lines) == IF lines = <<>> THEN analysis ELSE AnalyzeLines(AnalyzeLine(analysis, Head(lines)), Tail(lines))

\* analyze_changes(diff_text)
AnalyzeChanges(diff_text) == AnalyzeLines(EmptyAnalysis, Split(diff_text, "\n"))

\* the slices and limits of generate_commit_message and _build_prompt
MaxFilesInSummary == 5

MaxKeyChangesInSummary == 3

GenTopK == 3

PreviewLimit == 2000

\* the join without the [:5] slice
ChangedFilesAll(analysis) == Join(analysis.files_changed, <<",", " ">>)

\* ", ".join(analysis["files_changed"][:5])
ChangedFiles(analysis) == Join(Take(analysis.files_changed, MaxFilesInSummary), <<",", " ">>)

\* diff_summary, the retrieval query
DiffSummary(analysis) == ChangedFiles(analysis) \o <<" ">> \o Join(Take(analysis.key_changes, MaxKeyChangesInSummary), <<" ">>)

\* the preview cut already at the limit (>= for >)
DiffPreviewAtLimit(diff_text) == IF Len(diff_text) >= PreviewLimit THEN Take(diff_text, PreviewLimit) \o <<".", ".", ".">> ELSE diff_text

\* diff_preview of _build_prompt
DiffPreview(diff_text) == IF Len(diff_text) > PreviewLimit THEN Take(diff_text, PreviewLimit) \o <<".", ".", ".">> ELSE diff_text

\* _build_prompt: the values the user template is rendered with
BuildPrompt(diff_text, analysis, similar_commits, custom_context) == [changed_files |-> ChangedFiles(analysis), additions |-> analysis.additions, deletions |-> analysis.deletions, similar_commits |-> similar_commits, diff_preview |-> DiffPreview(diff_text), custom_context |-> custom_context]

\* the test on the staged diff with the empty-diff case left out
NoUsableDiffButEmpty(diff_text) == StartsWith(diff_text, <<"E", "r", "r", "o", "r">>) \/ StartsWith(diff_text, <<"G", "i", "t", " ", "n", "o", "t", " ", "f", "o", "u", "n", "d">>)

\* the test generate_commit_message makes on the staged diff it has read:
\* empty, or one of get_git_diff's error texts
NoUsableDiff(diff_text) == diff_text = NoText \/ StartsWith(diff_text, <<"E", "r", "r", "o", "r">>) \/ StartsWith(diff_text, <<"G", "i", "t", " ", "n", "o", "t", " ", "f", "o", "u", "n", "d">>)

\* a run of generate_commit_message: the steps it took in order, the
\* exception it let through ("None" when it returned), the dict it returned,
\* the diff it analysed, the query and the prompt when it got that far,
\* and what the LLM call did ("not_called" when the run did not get there)
Run(events, raised, result, analysed, query, prompt, llm) == [events |-> events, raised |-> raised, result |-> result, analysed |-> analysed, query |-> query, prompt |-> prompt, llm |-> llm]

\* get_similar_commits with the not-trained error turned into no results
SimilarCommitsSwallowing(diff_summary) == IF vectorizer = None \/ embeddings = None THEN [raised |-> "None", results |-> <<>>]
                                          ELSE RetrieveOutcome(vectorizer, embeddings, df, Tokenize(diff_summary), GenTopK, argsortTies)

\* get_similar_commits(diff_summary, top_k=3): retrieve on the generator's
\* index, its exceptions let through
SimilarCommits(diff_summary) == RetrieveOutcome(vectorizer, embeddings, df, Tokenize(diff_summary), GenTopK, argsortTies)

\* the LLM called a second time when the first call failed
LlmCallsRetrying(llm) == IF llm = "content" THEN <<"llm">> ELSE <<"llm", "llm">>

\* the calls of chat.completions.create in a run that gets to the try
\* block: one, outside any loop
LlmCalls(llm) == <<"llm">>

\* the try block with .strip() outside it: a response without content
\* raises to the caller
LlmResultPropagating(llm, analysis, similar_commits) == IF llm = "content" THEN [raised |-> "None", result |-> [commit_message |-> Strip(LlmContent), analysis |-> analysis, similar_commits |-> similar_commits]]
                                                        ELSE IF llm = "raises" THEN [raised |-> "None", result |-> [error |-> GroqErrorPrefix \o LlmErrorText(llm)]]
                                                        ELSE [raised |-> "AttributeError", result |-> None]

\* the except branch returning an empty message next to the error
LlmResultPartial(llm, analysis, similar_commits) == IF llm = "content" THEN [raised |-> "None", result |-> [commit_message |-> Strip(LlmContent), analysis |-> analysis, similar_commits |-> similar_commits]]
                                                    ELSE [raised |-> "None", result |-> [error |-> GroqErrorPrefix \o LlmErrorText(llm), commit_message |-> NoText]]

\* the try block: the dict with the message, or, on any exception of the
\* call or of reading its content, the error dict
LlmResult(llm, analysis, similar_commits) == IF llm = "content" THEN [raised |-> "None", result |-> [commit_message |-> Strip(LlmContent), analysis |-> analysis, similar_commits |-> similar_commits]]
                                             ELSE [raised |-> "None", result |-> [error |-> GroqErrorPrefix \o LlmErrorText(llm)]]

\* generate_commit_message(diff_text, custom_context), with the outcome of
\* the LLM call as llm
GenerateCommitMessage(diff_arg, custom_context, llm) == LET read == diff_arg = NotGiven
        diff_text == IF read THEN GetGitDiff(TRUE) ELSE diff_arg[1]
        acquire == IF read THEN <<"git_diff_staged">> ELSE <<>>
    IN  IF read /\ NoUsableDiff(diff_text)
        THEN Run(acquire, "None", [error |-> IF diff_text # NoText THEN diff_text ELSE NoStagedChanges], NotGiven, NotGiven, None, "not_called")
        ELSE LET analysis == AnalyzeChanges(diff_text)
                 diff_summary == DiffSummary(analysis)
                 found == SimilarCommits(diff_summary)
                 prompt == BuildPrompt(diff_text, analysis, found.results, custom_context)
                 answer == LlmResult(llm, analysis, found.results)
             IN  IF found.raised # "None"
                 THEN Run(acquire \o <<"analyze", "retrieve">>, found.raised, None, Given(diff_text), Given(diff_summary), None, "not_called")
                 ELSE Run(acquire \o <<"analyze", "retrieve", "build_prompt">> \o LlmCalls(llm), answer.raised, answer.result, Given(diff_text), Given(diff_summary), prompt, llm)

\* the dataset the generator's index is built from, and the model files its
\* constructor can find: none, one saved by an instance on another dataset,
\* one saved by an instance that was never trained
GeneratorDataset == <<TextFixLogin, TextAddDark>>

ModelFilesAtStart == {[kind |-> "Missing"], Bundle(TrainedOn(<<TextFixLogin>>)), Bundle(ModelData(None, None, Frame(GeneratorDataset)))}

\* CommitMessageGenerator.__init__: the index is loaded from the model file
\* when there is one, and trained and saved otherwise
ConstructedRag(csv, file) == IF file.kind = "Missing" THEN [data |-> TrainedOn(csv), file |-> Bundle(TrainedOn(csv)), last |-> Returned("save_model")]
                             ELSE [data |-> file.data, file |-> file, last |-> Returned("load_model")]

\* the generator after its construction, in a clean working tree
GenInit == /\ \E file \in ModelFilesAtStart :
                 /\ df = ConstructedRag(GeneratorDataset, file).data["df"]
                 /\ vectorizer = ConstructedRag(GeneratorDataset, file).data["vectorizer"]
                 /\ embeddings = ConstructedRag(GeneratorDataset, file).data["embeddings"]
                 /\ modelFile = ConstructedRag(GeneratorDataset, file).file
                 /\ ragCall = ConstructedRag(GeneratorDataset, file).last
           /\ trained = TRUE
           /\ argsortTies \in LifecycleTieOrders
           /\ GenIdle

GitStatuses == {"ok", "failed", "missing"}

WorkingTreeDiffs == {NoText, DiffFix, DiffDark}

\* the working tree changes (files edited, staged, committed; git breaking);
\* the runs recorded so far belong to the old tree and are forgotten
SetVcs(status, staged, unstaged) == /\ gitStatus' = status
                                    /\ stagedDiff' = staged
                                    /\ unstagedDiff' = unstaged
                                    /\ genCall' = None
                                    /\ apiCall' = None
                                    /\ UNCHANGED <<generator, analyzeCall, ragVars, threadVars>>

\* the diff arguments and contexts callers pass
DiffArgs == {NotGiven, Given(NoText), Given(DiffFix), Given(DiffDark)}

Contexts == {NoText, <<"c", "t", "x">>}

\* a caller (CLI, examples, tests) runs generate_commit_message
CallGenerate(diff_arg, custom_context, llm) == /\ genCall' = [diff_arg |-> diff_arg, custom_context |-> custom_context] @@ GenerateCommitMessage(diff_arg, custom_context, llm)
                                               /\ UNCHANGED <<gitStatus, stagedDiff, unstagedDiff, generator, apiCall, analyzeCall, ragVars, threadVars>>

\* option 2 of the interactive mode: the unstaged diff is read with
\* get_git_diff and handed to generate_commit_message as its diff_text
InteractiveUnstaged(llm) == /\ genCall' = [diff_arg |-> Given(GetGitDiff(FALSE)), custom_context |-> NoText] @@ GenerateCommitMessage(Given(GetGitDiff(FALSE)), NoText, llm)
                            /\ UNCHANGED <<gitStatus, stagedDiff, unstagedDiff, generator, apiCall, analyzeCall, ragVars, threadVars>>

\* stdout of subprocess.run(["git", "diff", ...]) in the handler: nothing is
\* printed there when git exits with an error
GitStdout(staged) == IF gitStatus = "ok" THEN (IF staged THEN stagedDiff ELSE unstagedDiff) ELSE NoText

\* the reply of the handler and what it did: the git reads in order and the
\* diff it passed on
Reply(reads, status, body, passed) == [reads |-> reads, status |-> status, body |-> body, passed |-> passed]

\* the fallback with the unstaged diff preferred
FallbackDiffUnstagedFirst(staged, unstaged) == IF unstaged # NoText THEN unstaged ELSE staged

\* the diff the handler goes on with: the staged one, or the unstaged one
\* when nothing is staged
FallbackDiff(staged, unstaged) == IF staged # NoText THEN staged ELSE unstaged

\* POST /api/commit/generate
ApiGenerateCommit(llm) == LET first == GitStdout(TRUE)
                              diff_text == FallbackDiff(first, GitStdout(FALSE))
                              reads == IF first # NoText THEN <<"staged">> ELSE <<"staged", "unstaged">>
                              run == GenerateCommitMessage(Given(diff_text), NoText, llm)
                          IN  /\ generator' = [kind |-> "CommitMessageGenerator"]
                              /\ IF gitStatus = "missing"
                                    THEN /\ apiCall' = Reply(<<"staged">>, 500, [exception |-> "FileNotFoundError"], NotGiven)
                                         /\ UNCHANGED genCall
                                    ELSE IF diff_text = NoText
                                    THEN /\ apiCall' = Reply(reads, 400, [error |-> NoChangesFound], NotGiven)
                                         /\ UNCHANGED genCall
                                    ELSE /\ genCall' = [diff_arg |-> Given(diff_text), custom_context |-> NoText] @@ run
                                         /\ apiCall' = IF run.raised # "None" THEN Reply(reads, 500, [exception |-> run.raised], Given(diff_text))
                                                       ELSE IF "error" \in DOMAIN run.result THEN Reply(reads, 400, [error |-> run.result.error], Given(diff_text))
                                                       ELSE Reply(reads, 200, [message |-> run.result.commit_message, analysis |-> run.result.analysis, similar_commits |-> run.result.similar_commits], Given(diff_text))
                              /\ UNCHANGED <<gitStatus, stagedDiff, unstagedDiff, analyzeCall, ragVars, threadVars>>

GenNext == \/ \E status \in GitStatuses, staged \in WorkingTreeDiffs, unstaged \in WorkingTreeDiffs : SetVcs(status, staged, unstaged)
           \/ \E diff_arg \in DiffArgs, custom_context \in Contexts, llm \in LlmOutcomes : CallGenerate(diff_arg, custom_context, llm)
           \/ \E llm \in LlmOutcomes : ApiGenerateCommit(llm)
           \/ \E llm \in LlmOutcomes : InteractiveUnstaged(llm)

SpecGen == GenInit /\ [][GenNext]_vars

(***************************************************************************)
(* get_generator of the HTTP server, called by the threads of concurrent   *)
(* requests (app.run serves every request in a thread of its own).         *)
(***************************************************************************)
\* the requests in flight at the same time
MaxThreads == 3

Threads == 1..MaxThreads

\* the CommitMessageGenerator object that thread t constructed
Instance(t) == [kind |-> "CommitMessageGenerator", by |-> t]

\* a request: where its thread is inside get_generator, the object it
\* constructed (if any) and the object get_generator returned to it
Request(pc, made, got) == [pc |-> pc, made |-> made, got |-> got]

\* the server process has started: the global generator is None, no request
\* has arrived and no index exists in memory
ServerInit == /\ df = None /\ vectorizer = None /\ embeddings = None
              /\ trained = FALSE
              /\ modelFile \in {[kind |-> "Missing"], Bundle(TrainedOn(GeneratorDataset))}
              /\ argsortTies = [i \in 1..MaxRecords |-> i]
              /\ ragCall = None
              /\ gitStatus = "ok" /\ stagedDiff = NoText /\ unstagedDiff = NoText
              /\ generator = None /\ genCall = None /\ apiCall = None /\ analyzeCall = None
              /\ requests = [t \in Threads |-> Request("idle", None, None)]
              /\ retrieveRun = None /\ mutatorRun = None

\* a request arrives and its handler calls get_generator
Arrive(t) == /\ requests[t].pc = "idle"
             /\ requests' = [requests EXCEPT ![t].pc = "test"]
             /\ UNCHANGED <<ragVars, genVars, retrieveRun, mutatorRun>>

\* if generator is None:
TestGenerator(t) == /\ requests[t].pc = "test"
                    /\ requests' = [requests EXCEPT ![t].pc = IF generator = None THEN "construct" ELSE "return"]
                    /\ UNCHANGED <<ragVars, genVars, retrieveRun, mutatorRun>>

\* CommitMessageGenerator(): the constructor runs (it loads the model file,
\* or trains and writes it); the object is not yet stored anywhere
Construct(t) == /\ requests[t].pc = "construct"
                /\ requests' = [requests EXCEPT ![t].pc = "assign", ![t].made = Instance(t)]
                /\ modelFile' = ConstructedRag(GeneratorDataset, modelFile).file
                /\ UNCHANGED <<df, vectorizer, embeddings, trained, argsortTies, ragCall>>
                /\ UNCHANGED <<genVars, retrieveRun, mutatorRun>>

\* generator = <the new object>: the global now names this thread's object
\* and its index
Assign(t) == /\ requests[t].pc = "assign"
             /\ requests' = [requests EXCEPT ![t].pc = "return"]
             /\ generator' = requests[t].made
             /\ df' = ConstructedRag(GeneratorDataset, modelFile).data["df"]
             /\ vectorizer' = ConstructedRag(GeneratorDataset, modelFile).data["vectorizer"]
             /\ embeddings' = ConstructedRag(GeneratorDataset, modelFile).data["embeddings"]
             /\ trained' = TRUE
             /\ ragCall' = ConstructedRag(GeneratorDataset, modelFile).last
             /\ UNCHANGED <<modelFile, argsortTies>>
             /\ UNCHANGED <<gitStatus, stagedDiff, unstagedDiff, genCall, apiCall, analyzeCall, retrieveRun, mutatorRun>>

\* return generator: the global is read again
ReturnGenerator(t) == /\ requests[t].pc = "return"
                      /\ requests' = [requests EXCEPT ![t].pc = "done", ![t].got = generator]
                      /\ UNCHANGED <<ragVars, genVars, retrieveRun, mutatorRun>>

GetGeneratorNext == \/ \E t \in Threads : Arrive(t)
                    \/ \E t \in Threads : TestGenerator(t)
                    \/ \E t \in Threads : Construct(t)
                    \/ \E t \in Threads : Assign(t)
                    \/ \E t \in Threads : ReturnGenerator(t)

SpecGetGenerator == ServerInit /\ [][GetGeneratorNext]_vars

(***************************************************************************)
(* One instance of GitHubCommitsRAG used by two threads: one calls train   *)
(* and load_model, the other calls retrieve.  Every read and every         *)
(* assignment of a field is a step.                                        *)
(***************************************************************************)
\* a retrieve in progress: the fields it has read so far and its outcome
RetrieveRun(pc, query, top_k, vec, emb, frame, raised, results) == [pc |-> pc, query |-> query, top_k |-> top_k, vec |-> vec, emb |-> emb, frame |-> frame, raised |-> raised, results |-> results]

\* an index trained on the generator's dataset, and a model file that an
\* instance trained on another dataset has saved
RagThreadsInit == /\ df = TrainedOn(GeneratorDataset)["df"]
                  /\ vectorizer = TrainedOn(GeneratorDataset)["vectorizer"]
                  /\ embeddings = TrainedOn(GeneratorDataset)["embeddings"]
                  /\ trained = TRUE
                  /\ modelFile \in {Bundle(TrainedOn(c)) : c \in ForeignCorpora}
                  /\ argsortTies = [i \in 1..MaxRecords |-> i]
                  /\ ragCall = Returned("train")
                  /\ GenIdle

\* train, up to self.vectorizer = TfidfVectorizer(...): the field holds a
\* vectorizer that is not fitted yet
TrainCreate == /\ mutatorRun = None
               /\ df # None /\ Trainable(df.records)
               /\ vectorizer' = UnfittedVectorizer
               /\ mutatorRun' = [op |-> "train", pc |-> "created"]
               /\ UNCHANGED <<df, embeddings, trained, modelFile, argsortTies, ragCall>>
               /\ UNCHANGED <<genVars, requests, retrieveRun>>

\* self.vectorizer.fit_transform(...) fits the stored vectorizer in place
\* and hands back the matrix
TrainFit == /\ mutatorRun # None /\ mutatorRun.op = "train" /\ mutatorRun.pc = "created"
            /\ vectorizer' = TrainedOn(df.records)["vectorizer"]
            /\ mutatorRun' = [op |-> "train", pc |-> "fitted", matrix |-> TrainedOn(df.records)["embeddings"]]
            /\ UNCHANGED <<df, embeddings, trained, modelFile, argsortTies, ragCall>>
            /\ UNCHANGED <<genVars, requests, retrieveRun>>

\* self.embeddings = <the matrix>, and train returns
TrainStore == /\ mutatorRun # None /\ mutatorRun.op = "train" /\ mutatorRun.pc = "fitted"
              /\ embeddings' = mutatorRun.matrix
              /\ trained' = TRUE
              /\ ragCall' = Returned("train")
              /\ mutatorRun' = None
              /\ UNCHANGED <<df, vectorizer, modelFile, argsortTies>>
              /\ UNCHANGED <<genVars, requests, retrieveRun>>

\* load_model, up to pickle.load: the bundle is in a local variable
LoadUnpickle == /\ mutatorRun = None
                /\ modelFile.kind = "Bundle"
                /\ mutatorRun' = [op |-> "load_model", pc |-> "unpickled", data |-> modelFile.data]
                /\ UNCHANGED <<ragVars, genVars, requests, retrieveRun>>

\* self.vectorizer = model_data["vectorizer"]
LoadStoreVectorizer == /\ mutatorRun # None /\ mutatorRun.op = "load_model" /\ mutatorRun.pc = "unpickled"
                       /\ vectorizer' = mutatorRun.data["vectorizer"]
                       /\ mutatorRun' = [mutatorRun EXCEPT !.pc = "vectorizer"]
                       /\ UNCHANGED <<df, embeddings, trained, modelFile, argsortTies, ragCall>>
                       /\ UNCHANGED <<genVars, requests, retrieveRun>>

\* self.embeddings = model_data["embeddings"]
LoadStoreEmbeddings == /\ mutatorRun # None /\ mutatorRun.op = "load_model" /\ mutatorRun.pc = "vectorizer"
                       /\ embeddings' = mutatorRun.data["embeddings"]
                       /\ mutatorRun' = [mutatorRun EXCEPT !.pc = "embeddings"]
                       /\ UNCHANGED <<df, vectorizer, trained, modelFile, argsortTies, ragCall>>
                       /\ UNCHANGED <<genVars, requests, retrieveRun>>

\* self.df = model_data["df"], and load_model returns
LoadStoreDf == /\ mutatorRun # None /\ mutatorRun.op = "load_model" /\ mutatorRun.pc = "embeddings"
               /\ df' = mutatorRun.data["df"]
               /\ trained' = TRUE
               /\ ragCall' = Returned("load_model")
               /\ mutatorRun' = None
               /\ UNCHANGED <<vectorizer, embeddings, modelFile, argsortTies>>
               /\ UNCHANGED <<genVars, requests, retrieveRun>>

\* retrieve starts: the test of the two fields against None
RetrieveCheck(query, top_k) == /\ IF retrieveRun = None THEN TRUE ELSE retrieveRun.pc = "done"
                               /\ retrieveRun' = IF vectorizer = None \/ embeddings = None
                                                  THEN RetrieveRun("done", query, top_k, None, None, None, "NotTrained", <<>>)
                                                  ELSE RetrieveRun("checked", query, top_k, None, None, None, "None", <<>>)
                               /\ UNCHANGED <<ragVars, genVars, requests, mutatorRun>>

\* self.vectorizer.transform([query]): the vectorizer is read
RetrieveTransform == /\ retrieveRun # None /\ retrieveRun.pc = "checked"
                     /\ retrieveRun' = IF ~vectorizer.fitted
                                        THEN [retrieveRun EXCEPT !.pc = "done", !.vec = vectorizer, !.raised = "NotFittedError"]
                                        ELSE [retrieveRun EXCEPT !.pc = "transformed", !.vec = vectorizer]
                     /\ UNCHANGED <<ragVars, genVars, requests, mutatorRun>>

\* cosine_similarity(query_embedding, self.embeddings) and the argsort: the
\* matrix is read
RetrieveScore == /\ retrieveRun # None /\ retrieveRun.pc = "transformed"
                 /\ retrieveRun' = IF Cardinality(retrieveRun.vec.vocabulary) # embeddings.ncols
                                    THEN [retrieveRun EXCEPT !.pc = "done", !.emb = embeddings, !.raised = "DimensionError"]
                                    ELSE [retrieveRun EXCEPT !.pc = "scored", !.emb = embeddings]
                 /\ UNCHANGED <<ragVars, genVars, requests, mutatorRun>>

\* the loop over top_indices: the dataframe is read, and retrieve returns
RetrieveCollect == /\ retrieveRun # None /\ retrieveRun.pc = "scored"
                   /\ LET outcome == RetrieveOutcome(retrieveRun.vec, retrieveRun.emb, df, retrieveRun.query, retrieveRun.top_k, argsortTies)
                      IN  retrieveRun' = [retrieveRun EXCEPT !.pc = "done", !.frame = df, !.raised = outcome.raised, !.results = outcome.results]
                   /\ UNCHANGED <<ragVars, genVars, requests, mutatorRun>>

RagThreadsNext == \/ TrainCreate
                  \/ TrainFit
                  \/ TrainStore
                  \/ LoadUnpickle
                  \/ LoadStoreVectorizer
                  \/ LoadStoreEmbeddings
                  \/ LoadStoreDf
                  \/ \E query \in Queries : RetrieveCheck(query, DefaultTopK)
                  \/ RetrieveTransform
                  \/ RetrieveScore
                  \/ RetrieveCollect

SpecRagThreads == RagThreadsInit /\ [][RagThreadsNext]_vars

(***************************************************************************)
(* Single runs of generate_commit_message on larger diffs.                 *)
(***************************************************************************)
\* the most file headers and the most added declarations in one diff
MaxFiles == 6

MaxKeys == 4

DigitOrder == <<"0", "1", "2", "3", "4", "5", "6", "7", "8", "9">>

\* "+++ b/f<i>" and "+def k<i>"
FileHeader(i) == <<"+", "+", "+", " ", "b", "/", "f">> \o <<DigitOrder[i + 1]>>

KeyLine(i) == <<"+", "d", "e", "f", " ", "k">> \o <<DigitOrder[i + 1]>>

\* a diff of files headers followed by keys added declarations
StatsDiff(files, keys) == Join([i \in 1..(files + keys) |-> IF i <= files THEN FileHeader(i) ELSE KeyLine(i - files)], <<"\n">>)

\* a diff of one added line, n characters long
LongDiff(n) == [i \in 1..n |-> IF i = 1 THEN "+" ELSE "x"]

\* the diffs of the runs: up to MaxFiles files and MaxKeys declarations,
\* and lengths around the limit of the preview
RunDiffs == {StatsDiff(files, keys) : files \in 0..MaxFiles, keys \in 0..MaxKeys} \cup {LongDiff(n) : n \in (PreviewLimit - 1)..(PreviewLimit + 2)}

\* a constructed generator (no model file found, index trained and saved)
RunInit == /\ df = ConstructedRag(GeneratorDataset, [kind |-> "Missing"]).data["df"]
           /\ vectorizer = ConstructedRag(GeneratorDataset, [kind |-> "Missing"]).data["vectorizer"]
           /\ embeddings = ConstructedRag(GeneratorDataset, [kind |-> "Missing"]).data["embeddings"]
           /\ modelFile = ConstructedRag(GeneratorDataset, [kind |-> "Missing"]).file
           /\ ragCall = ConstructedRag(GeneratorDataset, [kind |-> "Missing"]).last
           /\ trained = TRUE
           /\ argsortTies = [i \in 1..MaxRecords |-> i]
           /\ GenIdle

\* the one call of a script such as generate_for_diff
RunOnce(diff_text, custom_context, llm) == /\ genCall = None
                                           /\ CallGenerate(Given(diff_text), custom_context, llm)

RunNext == \E diff_text \in RunDiffs, custom_context \in Contexts, llm \in LlmOutcomes : RunOnce(diff_text, custom_context, llm)

SpecRun == RunInit /\ [][RunNext]_vars

(***************************************************************************)
(* analyze_changes on its own, as a function of the diff text.             *)
(***************************************************************************)
\* the longest diff text, in lines, that analyze_changes is applied to
MaxDiffLines == 3

\* the lines diffs are made of: the header of the new file, of a deleted
\* file's null target and of the old file; added lines with and without a
\* keyword (one with blanks at its end); removed lines with and without a
\* keyword; an empty line; a context line with a keyword
LineNewFile == <<"+", "+", "+", " ", "b", "/", "a", "p", "p", ".", "p", "y">>

LineNullTarget == <<"+", "+", "+", " ", "/", "d", "e", "v", "/", "n", "u", "l", "l">>

LineOldFile == <<"-", "-", "-", " ", "a", "/", "a", "p", "p", ".", "p", "y">>

LineAddedDef == <<"+", "d", "e", "f", " ", "h", "a", "n", "d", "l", "e", "r", "(", ")", ":">>

LineAdded == <<"+", " ", " ", " ", " ", "p", "a", "s", "s">>

LineRemoved == <<"-", " ", " ", " ", " ", "r", "e", "t", "u", "r", "n", " ", "N", "o", "n", "e">>

LineRemovedDef == <<"-", "d", "e", "f", " ", "o", "l", "d", "(", ")", ":", " ">>

LineEmpty == <<>>

LineContextClass == <<" ", "c", "l", "a", "s", "s", " ", "A", ":">>

LineAddedClass == <<"+", "c", "l", "a", "s", "s", " ", "B", ":", " ", " ">>

DiffLines == {LineNewFile, LineNullTarget, LineOldFile, LineAddedDef, LineAdded, LineRemoved, LineRemovedDef, LineEmpty, LineContextClass, LineAddedClass}

\* the diff of the specification's scenario
SampleDiff == <<"+", "+", "+", " ", "b", "/", "a", "p", "p", ".", "p", "y", "\n", "+", "d", "e", "f", " ", "h", "a", "n", "d", "l", "e", "r", "(", ")", ":", "\n", "+", " ", " ", " ", " ", "p", "a", "s", "s", "\n", "-", " ", " ", " ", " ", "r", "e", "t", "u", "r", "n", " ", "N", "o", "n", "e", "\n">>

\* the texts analyze_changes is applied to: every text of at most
\* MaxDiffLines lines, and the sample diff
DiffTexts == {Join(ls, <<"\n">>) : ls \in UNION {[1..n -> DiffLines] : n \in 0..MaxDiffLines}} \cup {SampleDiff}

\* a parser that rejects a text without a file header
AnalyzeOutcomeStrict(diff_text) == IF \E i \in 1..Len(Split(diff_text, "\n")) : StartsWith(Split(diff_text, "\n")[i], <<"+", "+", "+">>)
                                   THEN [raised |-> "None", analysis |-> AnalyzeChanges(diff_text)]
                                   ELSE [raised |-> "ValueError", analysis |-> None]

\* a call of analyze_changes: no statement of it can raise on a str, so it
\* returns its dict
AnalyzeOutcome(diff_text) == [raised |-> "None", analysis |-> AnalyzeChanges(diff_text)]

\* a constructed generator (no model file found, index trained and saved)
\* about to analyse one of the texts
AnalyzeInit == /\ df = ConstructedRag(GeneratorDataset, [kind |-> "Missing"]).data["df"]
               /\ vectorizer = ConstructedRag(GeneratorDataset, [kind |-> "Missing"]).data["vectorizer"]
               /\ embeddings = ConstructedRag(GeneratorDataset, [kind |-> "Missing"]).data["embeddings"]
               /\ modelFile = ConstructedRag(GeneratorDataset, [kind |-> "Missing"]).file
               /\ ragCall = ConstructedRag(GeneratorDataset, [kind |-> "Missing"]).last
               /\ trained = TRUE
               /\ argsortTies = [i \in 1..MaxRecords |-> i]
               /\ gitStatus = "ok" /\ stagedDiff = NoText /\ unstagedDiff = NoText
               /\ generator = None /\ genCall = None /\ apiCall = None
               /\ requests = <<>> /\ retrieveRun = None /\ mutatorRun = None
               /\ analyzeCall \in {[kind |-> "Pending", diff_text |-> t] : t \in DiffTexts}

\* analyze_changes(diff_text) runs
AnalyzeChangesCall == /\ analyzeCall.kind = "Pending"
                      /\ analyzeCall' = [kind |-> "Done", diff_text |-> analyzeCall.diff_text] @@ AnalyzeOutcome(analyzeCall.diff_text)
                      /\ UNCHANGED <<gitStatus, stagedDiff, unstagedDiff, generator, genCall, apiCall, ragVars, threadVars>>

AnalyzeNext == AnalyzeChangesCall

SpecAnalyze == AnalyzeInit /\ [][AnalyzeNext]_vars

(***************************************************************************)
(* Claims about retrieve (checked under SpecRetrieve).                     *)
(***************************************************************************)
RetrieveReturned == ragCall.op = "retrieve" /\ ragCall.raised = "None"

\* the index is the one train builds from the current dataframe
IndexOfCurrentCorpus == /\ df # None /\ vectorizer # None /\ embeddings # None
                        /\ vectorizer = TrainedOn(df.records)["vectorizer"]
                        /\ embeddings = TrainedOn(df.records)["embeddings"]

\* C1: for every k <= 0 and every query, retrieve(query, top_k=k) on a
\* trained index over a non-empty corpus returns an empty list.
C1_NonPositiveKReturnsEmpty == (ragCall.op = "retrieve" /\ ragCall.top_k <= 0 /\ IndexOfCurrentCorpus /\ Len(df.records) > 0) => (ragCall.raised = "None" /\ ragCall.results = <<>>)

\* C2: in the list retrieve returns, of two records with exactly equal
\* similarity the one with the lower corpus index comes first (stated for
\* the k >= 1 for which a list of records is the expected answer).
C2_TiesInAscendingCorpusOrder == (RetrieveReturned /\ ragCall.top_k >= 1) => \A a, b \in 1..Len(ragCall.results) : (a < b /\ ragCall.results[a].similarity = ragCall.results[b].similarity) => ragCall.results[a].idx < ragCall.results[b].idx

Min(a, b) == IF a < b THEN a ELSE b

\* the rows retrieve returned
ReturnedRows == {ragCall.results[j].idx : j \in 1..Len(ragCall.results)}

\* C8: for every k >= 1, retrieve(query, k) on a trained index over N
\* records returns exactly min(k, N) distinct records with their own
\* similarities, in non-increasing order of similarity, and no record left
\* out has a strictly higher similarity than a record returned.
C8_TopKSizeOrderAndCut == (ragCall.op = "retrieve" /\ ragCall.top_k >= 1 /\ IndexOfCurrentCorpus) =>
    LET res == ragCall.results
        n == Len(df.records)
        sims == Similarities(vectorizer, embeddings, ragCall.query)
    IN  /\ ragCall.raised = "None"
        /\ Len(res) = Min(ragCall.top_k, n)
        /\ Cardinality(ReturnedRows) = Len(res)
        /\ \A j \in 1..Len(res) : res[j].idx \in 1..n /\ res[j].similarity = sims[res[j].idx] /\ res[j].record = df.records[res[j].idx]
        /\ \A j \in 1..(Len(res) - 1) : res[j].similarity >= res[j + 1].similarity
        /\ \A i \in (1..n) \ ReturnedRows : \A j \in 1..Len(res) : sims[i] <= res[j].similarity

\* a query that returned two of three records, the first more similar than
\* the second and the second more similar than the record left out
C8_Witness == /\ RetrieveReturned /\ ragCall.top_k = 2 /\ Len(df.records) = 3 /\ Len(ragCall.results) = 2
              /\ ragCall.results[1].similarity > ragCall.results[2].similarity
              /\ \E i \in (1..3) \ ReturnedRows : Similarities(vectorizer, embeddings, ragCall.query)[i] < ragCall.results[2].similarity

\* the first k entries of a list (none when k <= 0)
FirstEntries(seq, k) == [j \in 1..(IF k < 0 THEN 0 ELSE Min(k, Len(seq))) |-> seq[j]]

\* C9: for every query and all integers k1 < k2, the first k1 entries of
\* retrieve(text, k2) are, in order, retrieve(text, k1) on the same index.
C9_TopKPrefix == RetrieveReturned => \A k1 \in TopKs : k1 < ragCall.top_k => FirstEntries(ragCall.results, k1) = RetrieveOutcome(vectorizer, embeddings, df, ragCall.query, k1, argsortTies).results

(***************************************************************************)
(* Claims about the life of one instance (checked under SpecRag).          *)
(***************************************************************************)
\* retrieve passes its not-trained check
Queryable == vectorizer # None /\ embeddings # None

\* C7: after any sequence of load_data, train, load_model and save_model
\* calls, whenever the index is queryable the matrix has exactly one row per
\* record of the current dataframe and row i was computed from record i.
C7_MatrixAlignedWithCorpus == Queryable => (/\ Len(embeddings.rows) = Len(df.records)
                                            /\ \A i \in 1..Len(embeddings.rows) : embeddings.rows[i] = TransformText(vectorizer.vocabulary, df.records[i]))

\* C10: retrieve on an instance on which neither train nor load_model has
\* completed fails with the not-trained error and returns nothing, whatever
\* calls (load_data, failed load_model) came before.
C10_UntrainedRetrieveRaises == (ragCall.op = "retrieve" /\ ~trained) => (ragCall.raised = "NotTrained" /\ ragCall.results = <<>>)

(***************************************************************************)
(* Claims about load_model, save_model and train as steps of an instance.  *)
(***************************************************************************)
\* the three fields of the index
IndexFields == <<vectorizer, embeddings, df>>

\* a step made by load_model: it is the last call and something changed
LoadModelStep == ragCall'.op = "load_model" /\ (ragCall' # ragCall \/ IndexFields' # IndexFields)

\* the answers retrieve gives in the next state are those it gives now
SameAnswers == \A query \in Queries : RetrieveOutcome(vectorizer', embeddings', df', query, DefaultTopK, argsortTies') = RetrieveOutcome(vectorizer, embeddings, df, query, DefaultTopK, argsortTies)

\* C11: a load_model that fails while reading the artifact (corrupt or
\* incomplete bundle) leaves vectorizer, embeddings and dataframe as they
\* were before the call.
C11_FailedLoadChangesNothing == [][(LoadModelStep /\ ragCall'.raised # "None") => UNCHANGED IndexFields]_vars

\* C12: load_model on a path that does not exist raises the not-found
\* error and leaves vectorizer, embeddings and dataframe as they were, so
\* retrieve answers every query as before the call.
C12_MissingFileChangesNothing == [][(LoadModelStep /\ modelFile.kind = "Missing") => (/\ ragCall'.raised = "FileNotFoundError"
                                                                                       /\ UNCHANGED IndexFields
                                                                                       /\ SameAnswers)]_vars

\* load_model has failed for want of a file on a trained index
C12_Witness == ragCall = Raised("load_model", "FileNotFoundError") /\ modelFile.kind = "Missing" /\ IndexOfCurrentCorpus

\* a step made by save_model, and one made by train
SaveModelStep == ragCall'.op = "save_model" /\ (ragCall' # ragCall \/ modelFile' # modelFile)

TrainStep == ragCall'.op = "train" /\ (ragCall' # ragCall \/ IndexFields' # IndexFields)

\* the model file is the bundle save_model wrote for a trained index
HoldsTrainedIndex(file) == /\ file.kind = "Bundle"
                           /\ DOMAIN file.data = {"vectorizer", "embeddings", "df"}
                           /\ file.data["vectorizer"] # None /\ file.data["embeddings"] # None

\* C13: save_model of a trained index writes its vocabulary, matrix and
\* corpus, and load_model of that file, on an instance in any state, yields
\* exactly these three, so retrieve(q, k) returns the same ordered results
\* as the saved index for every query q and every k.
C13_SaveLoadRoundTrip == [][/\ (SaveModelStep /\ Queryable) => (modelFile' = Bundle(ModelData(vectorizer, embeddings, df)) /\ HoldsTrainedIndex(modelFile'))
                            /\ (LoadModelStep /\ HoldsTrainedIndex(modelFile)) =>
                                  LET x == modelFile.data
                                  IN  /\ ragCall'.raised = "None"
                                      /\ IndexFields' = <<x["vectorizer"], x["embeddings"], x["df"]>>
                                      /\ \A query \in Queries, top_k \in TopKs : RetrieveOutcome(vectorizer', embeddings', df', query, top_k, argsortTies') = RetrieveOutcome(x["vectorizer"], x["embeddings"], x["df"], query, top_k, argsortTies)]_vars

\* load_model has restored the trained index that save_model wrote
C13_Witness == ragCall = Returned("load_model") /\ HoldsTrainedIndex(modelFile) /\ modelFile = Bundle(ModelData(vectorizer, embeddings, df)) /\ IndexOfCurrentCorpus

\* C14: a train that succeeds leaves a vectorizer and a matrix that depend
\* on the current corpus alone, and a load_model that succeeds leaves the
\* vectorizer, matrix and corpus of the artifact; nothing of an earlier
\* train or load survives, whatever calls came before.
C14_TrainAndLoadReplaceState == [][/\ (TrainStep /\ ragCall'.raised = "None") => (/\ df' = df
                                                                               /\ vectorizer' = FittedVectorizer(FitVocabulary(df.records))
                                                                               /\ embeddings' = TransformDocs(FitVocabulary(df.records), df.records))
                                   /\ (LoadModelStep /\ ragCall'.raised = "None") => (/\ modelFile.kind = "Bundle"
                                                                                   /\ IndexFields' = <<modelFile.data["vectorizer"], modelFile.data["embeddings"], modelFile.data["df"]>>)]_vars

\* an instance constructed on its own dataset now holds the index of
\* another instance's artifact, whole
C14_Witness == ragCall = Returned("load_model") /\ df = Frame(<<TextFixLogin>>) /\ IndexOfCurrentCorpus

\* C15: retrieve, search and save_model leave the vocabulary, the matrix
\* and the corpus as they were, for every query (also one of terms outside
\* the vocabulary) and every k: the vectorizer is not fitted at query time.
C15_QueriesAndSaveChangeNothing == [][ragCall'.op \in {"retrieve", "search", "save_model"} => UNCHANGED IndexFields]_vars

\* a search for terms the vocabulary does not have returned, after a save,
\* and the index is still the one trained on the corpus
C15_Witness == /\ ragCall.op = "search" /\ ragCall.raised = "None" /\ ragCall.query = {<<"z", "z", "z">>}
               /\ modelFile = Bundle(ModelData(vectorizer, embeddings, df))
               /\ IndexOfCurrentCorpus

(***************************************************************************)
(* Claims about generate_commit_message and the handler (SpecGen).         *)
(***************************************************************************)
\* a run without a diff argument in a working tree git can read
RanWithoutDiffArgument == genCall # None /\ genCall.diff_arg = NotGiven /\ gitStatus = "ok"

C4_EmptyDiffTextIsAnError == (genCall # None /\ genCall.diff_arg = Given(NoText) /\ gitStatus = "ok" /\ stagedDiff = NoText /\ unstagedDiff = NoText) => (/\ "error" \in DOMAIN genCall.result
                                                                                                                                              /\ \A i \in 1..Len(genCall.events) : genCall.events[i] \notin {"retrieve", "llm"})

\* C5: called with no diff argument, the staged and the unstaged diff both
\* empty, the run ends in an error result with a no-changes message and
\* neither the index nor the LLM is invoked.
C5_NoChangesIsAnError == (RanWithoutDiffArgument /\ stagedDiff = NoText /\ unstagedDiff = NoText) => (/\ genCall.raised = "None"
                                                                                                   /\ genCall.result = [error |-> NoStagedChanges]
                                                                                                   /\ \A i \in 1..Len(genCall.events) : genCall.events[i] \notin {"analyze", "retrieve", "build_prompt", "llm"})

C5_Witness == RanWithoutDiffArgument /\ stagedDiff = NoText /\ unstagedDiff = NoText /\ "error" \in DOMAIN genCall.result

\* C6: the handler reads the staged diff first and the unstaged diff only
\* when the staged one is empty (two reads at most), passes the first
\* non-empty of the two to generate_commit_message, and when both are empty
\* answers "No changes found" without calling generate_commit_message.
C6_HandlerFallback == (apiCall # None /\ gitStatus # "missing") =>
    LET staged == GitStdout(TRUE)
        unstaged == GitStdout(FALSE)
    IN  /\ Len(apiCall.reads) \in {1, 2} /\ apiCall.reads[1] = "staged"
        /\ Len(apiCall.reads) = 2 <=> staged = NoText
        /\ Len(apiCall.reads) = 2 => apiCall.reads[2] = "unstaged"
        /\ staged # NoText => apiCall.passed = Given(staged)
        /\ (staged = NoText /\ unstaged # NoText) => apiCall.passed = Given(unstaged)
        /\ (staged = NoText /\ unstaged = NoText) => (apiCall.passed = NotGiven /\ apiCall.status = 400 /\ apiCall.body = [error |-> NoChangesFound])

C6_Witness == apiCall # None /\ gitStatus = "ok" /\ stagedDiff = NoText /\ unstagedDiff = DiffFix /\ apiCall.reads = <<"staged", "unstaged">> /\ apiCall.passed = Given(DiffFix) /\ apiCall.status = 200

(***************************************************************************)
(* Claims about the steps and the results of a run (SpecGen).              *)
(***************************************************************************)
\* the steps of a run, in the order of the code
StepOrder == <<"git_diff_staged", "analyze", "retrieve", "build_prompt", "llm">>

StepPos(step) == CHOOSE i \in 1..Len(StepOrder) : StepOrder[i] = step

\* the run took this step
Took(step) == \E i \in 1..Len(genCall.events) : genCall.events[i] = step

\* C21: the steps of a run are taken in the order diff acquisition,
\* analysis, index query for the top 3, prompt assembly, LLM call, each
\* once at most and none skipped; the LLM is called once at most, also after
\* a failure.
C21_StepsInOrderOnce == genCall # None =>
    LET e == genCall.events
    IN  /\ \A i \in 1..Len(e) : \E j \in 1..Len(StepOrder) : StepOrder[j] = e[i]
        /\ \A i \in 1..(Len(e) - 1) : StepPos(e[i + 1]) = StepPos(e[i]) + 1
        /\ Len(e) > 0 /\ (e[1] = "git_diff_staged" <=> genCall.diff_arg = NotGiven) /\ e[1] \in {"git_diff_staged", "analyze"}
        /\ Cardinality({i \in 1..Len(e) : e[i] = "llm"}) <= 1
        /\ genCall.llm # "not_called" <=> Took("llm")
        /\ "similar_commits" \in DOMAIN genCall.result => genCall.result.similar_commits = RetrieveOutcome(vectorizer, embeddings, df, Tokenize(genCall.query[1]), 3, argsortTies).results

\* a run went through all five steps and its one LLM call failed
C21_Witness == genCall # None /\ genCall.events = StepOrder /\ genCall.llm = "raises"

\* C22: when the LLM call fails (it raises, or its response has no
\* content) the run does not raise: it returns a dict that holds an error
\* message with the text of the failure and nothing else.
C22_LlmFailureIsAnErrorResult == (genCall # None /\ genCall.llm \in {"raises", "no_content"}) => (/\ genCall.raised = "None"
                                                                                              /\ DOMAIN genCall.result = {"error"}
                                                                                              /\ genCall.result.error = GroqErrorPrefix \o (IF genCall.llm = "raises" THEN <<"t", "i", "m", "e", "o", "u", "t">> ELSE <<"n", "o", " ", "a", "t", "t", "r", "i", "b", "u", "t", "e", " ", "s", "t", "r", "i", "p">>))

\* the response had no content and the run returned the error dict
C22_Witness == genCall # None /\ genCall.llm = "no_content" /\ genCall.raised = "None" /\ DOMAIN genCall.result = {"error"} /\ StartsWith(genCall.result.error, GroqErrorPrefix)

\* C23: a run that returns returns either the message with the statistics
\* and the retrieval results of this run, or an error message alone; a run
\* that fails returns no commit message.
C23_ResultIsSuccessOrError == genCall # None =>
    IF genCall.raised # "None" THEN genCall.result = None
    ELSE \/ /\ DOMAIN genCall.result = {"commit_message", "analysis", "similar_commits"}
            /\ genCall.llm = "content"
            /\ genCall.result.analysis = AnalyzeChanges(genCall.analysed[1])
            /\ genCall.result.similar_commits = RetrieveOutcome(vectorizer, embeddings, df, Tokenize(genCall.query[1]), 3, argsortTies).results
         \/ /\ DOMAIN genCall.result = {"error"}
            /\ genCall.llm # "content"

\* a run has returned a message with the statistics of the diff it was given
C23_Witness == genCall # None /\ genCall.raised = "None" /\ "commit_message" \in DOMAIN genCall.result /\ genCall.diff_arg = Given(DiffFix) /\ genCall.result.analysis.files_changed = <<<<"f", "i", "x", ".", "p", "y">>>> /\ Len(genCall.result.similar_commits) = 2

\* C24: a run that reaches the retrieval step with an untrained index lets
\* the not-trained error through to its caller; it returns nothing and
\* neither assembles the prompt nor calls the LLM.
C24_NotTrainedPropagates == (genCall # None /\ Took("retrieve") /\ (vectorizer = None \/ embeddings = None)) => (/\ genCall.raised = "NotTrained"
                                                                                                        /\ genCall.result = None
                                                                                                        /\ ~Took("build_prompt") /\ ~Took("llm")
                                                                                                        /\ genCall.llm = "not_called")

\* a run on a generator whose model file held an untrained index
C24_Witness == genCall # None /\ vectorizer = None /\ genCall.raised = "NotTrained" /\ genCall.events[Len(genCall.events)] = "retrieve"

\* an error text of get_git_diff
IsGitErrorText(text) == StartsWith(text, <<"E", "r", "r", "o", "r", " ", "g", "e", "t", "t", "i", "n", "g", " ", "g", "i", "t", " ", "d", "i", "f", "f">>) \/ StartsWith(text, <<"G", "i", "t", " ", "n", "o", "t", " ", "f", "o", "u", "n", "d">>)

\* C29: no run analyses an error text of get_git_diff as a diff, queries
\* the index with it or sends it to the LLM, whichever caller read the diff
\* with get_git_diff.
C29_GitErrorTextNeverAnalysed == (genCall # None /\ genCall.analysed # NotGiven) => ~IsGitErrorText(genCall.analysed[1])

(***************************************************************************)
(* The three-record scenario (SpecScenario).                               *)
(***************************************************************************)
\* C28: on the corpus 'fix login bug', 'add dark mode', 'fix login crash'
\* the query 'fix login' with k = 3 returns record 0, then record 2, then
\* record 1, the last with similarity 0 (rows are numbered from 1 here).
C28_ScenarioOrder == (ragCall.op = "retrieve" /\ ragCall.query = TextFixLogin /\ ragCall.top_k = 3) =>
    /\ ragCall.raised = "None"
    /\ [j \in 1..Len(ragCall.results) |-> ragCall.results[j].idx] = <<1, 3, 2>>
    /\ ragCall.results[3].similarity = 0

(***************************************************************************)
(* Claims about concurrent callers (SpecGetGenerator, SpecRagThreads).     *)
(***************************************************************************)
\* C25: however concurrent get_generator calls interleave, the generator is
\* constructed at most once and all callers get the same instance.
C25_ConstructedOnceAndShared ==
    /\ Cardinality({t \in DOMAIN requests : requests[t].made # None}) <= 1
    /\ \A t, u \in DOMAIN requests : (requests[t].pc = "done" /\ requests[u].pc = "done") => requests[t].got = requests[u].got

\* the fields hold one index: a fitted vectorizer and the matrix of the
\* dataframe's rows under its vocabulary
OneIndex(vec, emb, frame) == /\ vec # None /\ emb # None /\ frame # None
                             /\ vec.fitted
                             /\ emb = TransformDocs(vec.vocabulary, frame.records)

\* C30: however train and load_model interleave with a retrieve on the same
\* instance, the retrieve finishes on a vectorizer, a matrix and a corpus
\* that belong to one index, never on a mixture of two.
C30_RetrieveSeesOneIndex == (retrieveRun # None /\ retrieveRun.pc = "done") =>
    /\ retrieveRun.raised = "None"
    /\ OneIndex(retrieveRun.vec, retrieveRun.emb, retrieveRun.frame)

(***************************************************************************)
(* Claims about the query and the preview of a run (SpecRun).              *)
(***************************************************************************)
\* C26: the retrieval query is the first 5 files_changed entries at most,
\* joined by ", ", then the first 3 key_changes entries at most, joined by
\* " ", in the order of the statistics; later entries do not change it.
C26_QueryFromFirstFilesAndKeys == (genCall # None /\ genCall.query # NotGiven) =>
    LET stats == AnalyzeChanges(genCall.analysed[1])
        files == SubSeq(stats.files_changed, 1, Min(5, Len(stats.files_changed)))
        keys == SubSeq(stats.key_changes, 1, Min(3, Len(stats.key_changes)))
    IN  /\ genCall.query[1] = Join(files, <<",", " ">>) \o <<" ">> \o Join(keys, <<" ">>)
        /\ genCall.query[1] = DiffSummary([stats EXCEPT !.files_changed = files, !.key_changes = keys])

\* a diff of six files and four declarations: the sixth file and the
\* fourth declaration are not in the query
C26_Witness == genCall # None /\ genCall.analysed = Given(StatsDiff(6, 4)) /\ genCall.query = Given(<<"f", "1", ",", " ", "f", "2", ",", " ", "f", "3", ",", " ", "f", "4", ",", " ", "f", "5", " ", "+", "d", "e", "f", " ", "k", "1", " ", "+", "d", "e", "f", " ", "k", "2", " ", "+", "d", "e", "f", " ", "k", "3">>)

\* C27: the preview in the prompt is the diff itself when that has 2000
\* characters at most, and else its first 2000 characters followed by
\* "..."; it is never longer than 2003 characters and carries the marker
\* only when the diff is longer than 2000.
C27_PreviewCutAtLimit == (genCall # None /\ genCall.prompt # None) =>
    LET diff_text == genCall.analysed[1]
        preview == genCall.prompt.diff_preview
    IN  /\ Len(diff_text) <= 2000 => preview = diff_text
        /\ Len(diff_text) > 2000 => preview = SubSeq(diff_text, 1, 2000) \o <<".", ".", ".">>
        /\ Len(preview) <= 2003
        /\ preview # diff_text => Len(diff_text) > 2000

\* a diff of 2001 characters got a preview of 2003
C27_Witness == genCall # None /\ genCall.prompt # None /\ Len(genCall.analysed[1]) = 2001 /\ Len(genCall.prompt.diff_preview) = 2003

(***************************************************************************)
(* Claims about analyze_changes (checked under SpecAnalyze).               *)
(***************************************************************************)
\* analyze_changes has returned
Analyzed == analyzeCall.kind = "Done" /\ analyzeCall.raised = "None"

\* the lines of the analysed text
AnalyzedLines == Split(analyzeCall.diff_text, "\n")

IsNewFileHeader(line) == StartsWith(line, <<"+", "+", "+", " ", "b", "/">>)

\* <path> of a line "+++ b/<path>"
HeaderPath(line) == Strip(SubSeq(line, Len(<<"+", "+", "+", " ", "b", "/">>) + 1, Len(line)))

IsAdded(line) == StartsWith(line, <<"+">>) /\ ~StartsWith(line, <<"+", "+", "+">>)

IsRemoved(line) == StartsWith(line, <<"-">>) /\ ~StartsWith(line, <<"-", "-", "-">>)

HasKeyword(line) == Contains(line, <<"d", "e", "f", " ">>) \/ Contains(line, <<"c", "l", "a", "s", "s", " ">>) \/ Contains(line, <<"f", "u", "n", "c", "t", "i", "o", "n", " ">>)

IsAddedKeyLine(line) == IsAdded(line) /\ HasKeyword(line)

\* C16: the entries of files_changed are the <path> of the lines that begin
\* with "+++ b/" and of no other line: "+++ /dev/null" and every line not
\* of the form "+++ b/<path>" add no entry.
C16_OnlyNewFileHeadersRecorded == Analyzed =>
    LET files == analyzeCall.analysis.files_changed
    IN  {files[i] : i \in 1..Len(files)} = {HeaderPath(AnalyzedLines[i]) : i \in {j \in 1..Len(AnalyzedLines) : IsNewFileHeader(AnalyzedLines[j]) /\ HeaderPath(AnalyzedLines[j]) # NoText}}

\* C17: files_changed holds no path twice (stated for the texts whose
\* "+++" lines are all of the form "+++ b/<path>").
C17_NoPathTwice == (Analyzed /\ \A i \in 1..Len(AnalyzedLines) : StartsWith(AnalyzedLines[i], <<"+", "+", "+">>) => IsNewFileHeader(AnalyzedLines[i])) =>
    LET files == analyzeCall.analysis.files_changed
    IN  \A i, j \in 1..Len(files) : files[i] = files[j] => i = j

\* C18: additions is the number of lines that start with "+" but not
\* "+++", deletions the number of lines that start with "-" but not "---";
\* no line counts twice and header lines count for neither; the sample diff
\* gives additions = 2 and deletions = 1.
C18_AdditionsAndDeletionsCounted == Analyzed =>
    LET stats == analyzeCall.analysis
        added == {i \in 1..Len(AnalyzedLines) : IsAdded(AnalyzedLines[i])}
        removed == {i \in 1..Len(AnalyzedLines) : IsRemoved(AnalyzedLines[i])}
        headers == {i \in 1..Len(AnalyzedLines) : StartsWith(AnalyzedLines[i], <<"+", "+", "+">>) \/ StartsWith(AnalyzedLines[i], <<"-", "-", "-">>)}
    IN  /\ stats.additions = Cardinality(added)
        /\ stats.deletions = Cardinality(removed)
        /\ stats.additions + stats.deletions + Cardinality(headers) <= Len(AnalyzedLines)
        /\ analyzeCall.diff_text = SampleDiff => (stats.additions = 2 /\ stats.deletions = 1)

\* the sample diff has been analysed
C18_Witness == Analyzed /\ analyzeCall.diff_text = SampleDiff /\ analyzeCall.analysis.additions = 2 /\ analyzeCall.analysis.deletions = 1 /\ analyzeCall.analysis.files_changed = <<<<"a", "p", "p", ".", "p", "y">>>>

\* C19: key_changes is, in diff order, the added lines (start with "+",
\* not "+++") that contain "def ", "class " or "function ", each trimmed;
\* removed, context and header lines are not in it and it is no longer than
\* the number of additions.
C19_KeyChangesAreAddedKeywordLines == Analyzed =>
    LET stats == analyzeCall.analysis
        key_lines == SelectSeq(AnalyzedLines, IsAddedKeyLine)
    IN  /\ stats.key_changes = [i \in 1..Len(key_lines) |-> Strip(key_lines[i])]
        /\ Len(stats.key_changes) <= stats.additions

\* a removed line and a context line with a keyword around an added one
\* that ends in blanks: only the added one is kept, trimmed
C19_Witness == Analyzed /\ analyzeCall.diff_text = Join(<<LineRemovedDef, LineAddedClass, LineContextClass>>, <<"\n">>) /\ analyzeCall.analysis.key_changes = <<<<"+", "c", "l", "a", "s", "s", " ", "B", ":">>>>

\* C20: analyze_changes returns its four statistics for every text and
\* raises for none; for the empty text they are [], 0, 0, []; a run given
\* the text goes on from the analysis to retrieval.
C20_AnalysisIsTotal == analyzeCall.kind = "Done" =>
    /\ analyzeCall.raised = "None"
    /\ DOMAIN analyzeCall.analysis = {"files_changed", "additions", "deletions", "key_changes"}
    /\ analyzeCall.analysis.additions \in Nat /\ analyzeCall.analysis.deletions \in Nat
    /\ analyzeCall.diff_text = NoText => analyzeCall.analysis = EmptyAnalysis
    /\ LET run == GenerateCommitMessage(Given(analyzeCall.diff_text), NoText, "content")
       IN  Len(run.events) >= 2 /\ run.events[1] = "analyze" /\ run.events[2] = "retrieve" /\ run.analysed = Given(analyzeCall.diff_text)

\* the empty text has been analysed
C20_Witness == analyzeCall.kind = "Done" /\ analyzeCall.diff_text = NoText /\ analyzeCall.raised = "None" /\ analyzeCall.analysis = EmptyAnalysis

====
